---------------------------- MODULE Spec2Model ----------------------------
(***************************************************************************)
(* Code writer (CodePage0) and debug tree (DbgNode, DbgInfo) of the        *)
(* assembler: src/writer.rs and src/debug.rs.                              *)
(*                                                                         *)
(* A builder is a record [data, length_in_bits, references]; data is kept  *)
(* as a sequence of bytes because the writer only ever appends whole bytes *)
(* (command.len() * 8 bits), the fill level and the capacity are in bits.  *)
(* A cell is [data, bit_length, references].  A DbgNode is                 *)
(* [offsets, children], offsets being a function from bit offsets to       *)
(* DbgPos records (the BTreeMap).                                          *)
(***************************************************************************)
EXTENDS Integers, Sequences, FiniteSets, TLC

VARIABLES
    cells,          \* CodePage0.cells : Vec<BuilderData>
    dbg,            \* CodePage0.dbg   : Vec<DbgNode>
    pc,             \* "writing" | "finalizing" | "finalized" | "collected" | "panicked"
    call,           \* the last call made on the writer and its arguments
    result,         \* what that call returned: "Ok" | "NotFitInSlice" | "panic" | "none"
    nwrites,        \* number of write calls made so far
    emitted,        \* bytes of the successful write calls, in call order
    finalize_self,  \* the writer as it was moved into finalize
    cursor,         \* finalize: local `cursor`
    cursor_dbg,     \* finalize: local `dbg`
    info            \* the DbgInfo built from the finalized pair

VARIABLES
    other_info,     \* DbgInfo::append: the argument `other`, as the call leaves it
    json,           \* serde: the serialised DbgInfo
    restored,       \* serde: the DbgInfo deserialised from json
    lhs,            \* DbgPos comparison: left operand
    rhs             \* DbgPos comparison: right operand

VARIABLES
    number,         \* integer codec: the BigInt given to the encoder
    octets,         \* integer codec: what the encoder returned
    decoded,        \* integer codec: what the decoder returned
    rest            \* integer codec: what the decoder left in the byte stream

VARIABLES
    args,           \* asm: the command line after the executable name
    env,            \* asm: which of the file and compile steps fail
    exit_code,      \* asm: the process exit status
    log             \* asm: file accesses and prints, in order

VARIABLES
    content,        \* read: the characters of the input file
    lines,          \* read: the Lines built from it
    joined,         \* lines_to_string of lines
    literal,        \* parse_slice: the slice literal and the bit offset
    parsed          \* parse_slice: the bytes returned

writer_vars == <<cells, dbg, nwrites, emitted, finalize_self, cursor, cursor_dbg>>

debug_vars == <<other_info, json, restored, lhs, rhs>>

codec_vars == <<number, octets, decoded, rest>>

asm_vars == <<args, env, exit_code, log>>

text_vars == <<content, lines, joined, literal, parsed>>

vars == <<cells, dbg, pc, call, result, nwrites, emitted, finalize_self,
          cursor, cursor_dbg, info, debug_vars, codec_vars, asm_vars, text_vars>>

(***************************************************************************)
(* Bounds                                                                  *)
(***************************************************************************)
MaxWrites == 4

(***************************************************************************)
(* Cell / builder contract (ton_types, used by the writer)                 *)
(***************************************************************************)
MaxCellBits == 1023

MaxCellRefs == 4

None == "none"

\* the parts of the state a specification does not use
WriterIdle ==
    /\ cells = <<>> /\ dbg = <<>> /\ nwrites = 0 /\ emitted = <<>>
    /\ finalize_self = None /\ cursor = None /\ cursor_dbg = None

DebugIdle ==
    other_info = None /\ json = None /\ restored = None /\ lhs = None /\ rhs = None

CodecIdle == number = None /\ octets = None /\ decoded = None /\ rest = None

AsmIdle == args = None /\ env = None /\ exit_code = None /\ log = None

TextIdle ==
    content = None /\ lines = None /\ joined = None /\ literal = None /\ parsed = None

BuilderData_new == [data |-> <<>>, length_in_bits |-> 0, references |-> <<>>]

bits_used(b) == b.length_in_bits

references_free(b) == MaxCellRefs - Len(b.references)

into_cell(b) ==
    [data |-> b.data, bit_length |-> b.length_in_bits, references |-> b.references]

\* append_raw(slice, bits): fails, leaving the builder as it is, when the
\* bits do not fit.
append_raw(b, command, bits) ==
    IF b.length_in_bits + bits > MaxCellBits
    THEN [ok |-> FALSE, builder |-> b]
    ELSE [ok |-> TRUE,
          builder |-> [b EXCEPT !.data = @ \o command,
                                !.length_in_bits = @ + bits]]

checked_append_reference(b, cell) ==
    IF references_free(b) = 0
    THEN [ok |-> FALSE, builder |-> b]
    ELSE [ok |-> TRUE, builder |-> [b EXCEPT !.references = Append(@, cell)]]

\* append_reference(child: BuilderData): pushes the child's cell, unchecked.
append_reference(b, child) ==
    [b EXCEPT !.references = Append(@, into_cell(child))]

RECURSIVE repr_hash(_)
\* The content hash: equal exactly for cells of equal bits and equal
\* reference hashes.
repr_hash(cell) ==
    <<cell.bit_length, cell.data,
      [i \in 1..Len(cell.references) |-> repr_hash(cell.references[i])]>>

(***************************************************************************)
(* DbgPos, DbgNode                                                         *)
(***************************************************************************)
DbgPos(filename, line, line_code) ==
    [filename |-> filename, line |-> line, line_code |-> line_code]

EmptyMap == [k \in {} |-> None]

\* BTreeMap::insert: the new value replaces an existing one.
BTreeMap_insert(map, key, value) ==
    [k \in DOMAIN map \cup {key} |-> IF k = key THEN value ELSE map[k]]

DbgNode_new == [offsets |-> EmptyMap, children |-> <<>>]

DbgNode_from_ext(pos, dbgs) ==
    [offsets |-> BTreeMap_insert(EmptyMap, 0, pos), children |-> dbgs]

DbgNode_from(pos) == DbgNode_from_ext(pos, <<>>)

\* DbgNode::append(offset, pos)
append(self, offset, pos) ==
    [self EXCEPT !.offsets = BTreeMap_insert(@, offset, pos)]

append_node_accepts_fifth(self, d) ==
    IF Len(self.children) <= 4
    THEN [panic |-> FALSE, node |-> [self EXCEPT !.children = Append(@, d)]]
    ELSE [panic |-> TRUE, node |-> self]

\* assert!(self.children.len() < 4); self.children.push(dbg)
append_node(self, d) ==
    IF Len(self.children) < 4
    THEN [panic |-> FALSE, node |-> [self EXCEPT !.children = Append(@, d)]]
    ELSE [panic |-> TRUE, node |-> self]

RECURSIVE append_nodes(_, _)
\* for child in children { self.append_node(child) }, stopping at the
\* first failed assertion
append_nodes(self, children) ==
    IF children = <<>>
    THEN [panic |-> FALSE, node |-> self]
    ELSE LET r == append_node(self, Head(children))
         IN  IF r.panic THEN r ELSE append_nodes(r.node, Tail(children))

inline_offsets_unshifted(map, offset, other) ==
    [k \in DOMAIN map \cup DOMAIN other |->
        IF k \in DOMAIN other THEN other[k] ELSE map[k]]

\* for entry in dbg.offsets { self.offsets.insert(entry.0 + offset, entry.1) }
inline_offsets(map, offset, other) ==
    LET shifted == {k + offset : k \in DOMAIN other}
    IN  [k \in DOMAIN map \cup shifted |->
            IF k \in shifted THEN other[k - offset] ELSE map[k]]

inline_node(self, offset, d) ==
    append_nodes([self EXCEPT !.offsets = inline_offsets(@, offset, d.offsets)],
                 d.children)

(***************************************************************************)
(* CodePage0                                                               *)
(***************************************************************************)
Last(s) == s[Len(s)]

SetLast_first(s, x) == [s EXCEPT ![1] = x]

SetLast(s, x) == [s EXCEPT ![Len(s)] = x]

CodePage0_new == [cells |-> <<BuilderData_new>>, dbg |-> <<DbgNode_new>>]

Outcome_with_fresh_pair(self, res) ==
    [cells  |-> Append(self.cells, BuilderData_new),
     dbg    |-> Append(self.dbg, DbgNode_new),
     result |-> res]

Outcome(self, res) == [cells |-> self.cells, dbg |-> self.dbg, result |-> res]

write_command_fresh_without_node(self, command, d) ==
    LET code == append_raw(BuilderData_new, command, Len(command) * 8)
    IN  IF code.ok
        THEN [cells  |-> Append(self.cells, code.builder),
              dbg    |-> self.dbg,
              result |-> "Ok"]
        ELSE Outcome(self, "NotFitInSlice")

\* the tail of write_command: the command goes to a fresh builder
write_command_fresh(self, command, d) ==
    LET code == append_raw(BuilderData_new, command, Len(command) * 8)
    IN  IF code.ok
        THEN [cells  |-> Append(self.cells, code.builder),
              dbg    |-> Append(self.dbg, d),
              result |-> "Ok"]
        ELSE Outcome(self, "NotFitInSlice")

write_command_always_fresh(self, command, d) ==
    write_command_fresh(self, command, d)

\* CodePage0::write_command
write_command(self, command, d) ==
    LET offset == bits_used(Last(self.cells))
        r      == append_raw(Last(self.cells), command, Len(command) * 8)
        n      == inline_node(Last(self.dbg), offset, d)
    IN  IF self.cells # <<>> /\ r.ok
        THEN [cells  |-> SetLast(self.cells, r.builder),
              dbg    |-> SetLast(self.dbg, n.node),
              result |-> IF n.panic THEN "panic" ELSE "Ok"]
        ELSE write_command_fresh(self, command, d)

NoReservedReference == 1 - 1

\* number of reference slots of the current builder a composite command
\* leaves alone: `references_free() > 1`
ReservedReferences == 1

\* the debug records of the in-place path of write_composite_command
composite_dbg_in_place(dbgnode, offset, command, pos, d) ==
    LET n1   == append(dbgnode, offset, pos)
        stub == [d EXCEPT !.children = <<>>]
        n2   == inline_node(n1, offset + Len(command) * 8, stub)
    IN  IF n2.panic THEN n2 ELSE append_nodes(n2.node, d.children)

\* the debug records of the fresh-builder path of write_composite_command
composite_dbg_fresh(pos, d) ==
    append_node(append(DbgNode_new, 0, pos), d)

write_composite_fresh_no_reference(self, command, reference, pos, d) ==
    LET c1   == append_raw(BuilderData_new, command, Len(command) * 8)
        node == composite_dbg_fresh(pos, d)
    IN  IF c1.ok
        THEN [cells  |-> Append(self.cells, c1.builder),
              dbg    |-> Append(self.dbg, node.node),
              result |-> IF node.panic THEN "panic" ELSE "Ok"]
        ELSE Outcome(self, "NotFitInSlice")

write_composite_fresh(self, command, reference, pos, d) ==
    LET cell == into_cell(reference)
        c1   == append_raw(BuilderData_new, command, Len(command) * 8)
        c2   == checked_append_reference(c1.builder, cell)
        node == composite_dbg_fresh(pos, d)
    IN  IF c1.ok /\ c2.ok
        THEN [cells  |-> Append(self.cells, c2.builder),
              dbg    |-> Append(self.dbg, node.node),
              result |-> IF node.panic THEN "panic" ELSE "Ok"]
        ELSE Outcome(self, "NotFitInSlice")

write_composite_command(self, command, reference, pos, d) ==
    LET last   == Last(self.cells)
        offset == bits_used(last)
        l1     == append_raw(last, command, Len(command) * 8)
        l2     == checked_append_reference(l1.builder, into_cell(reference))
        n      == composite_dbg_in_place(Last(self.dbg), offset, command, pos, d)
    IN  IF /\ self.cells # <<>>
           /\ references_free(last) > ReservedReferences
           /\ l1.ok
           /\ l2.ok
        THEN [cells  |-> SetLast(self.cells, l2.builder),
              dbg    |-> SetLast(self.dbg, n.node),
              result |-> IF n.panic THEN "panic" ELSE "Ok"]
        ELSE write_composite_fresh(self, command, reference, pos, d)

(***************************************************************************)
(* DbgInfo                                                                 *)
(***************************************************************************)
RECURSIVE collect(_, _, _)
RECURSIVE collect_references(_, _, _, _)
collect_overwrite(self, cell, d) ==
    collect_references(
        [self EXCEPT !.map = BTreeMap_insert(@, repr_hash(cell), d.offsets)],
        cell, d, 1)

collect_references_skip_last(self, cell, d, i) ==
    IF self.panic \/ i >= Len(cell.references)
    THEN self
    ELSE IF i > Len(d.children)
         THEN [self EXCEPT !.panic = TRUE]
         ELSE collect_references(
                  collect(self, cell.references[i], d.children[i]), cell, d, i + 1)

\* self.map.entry(hash).or_insert_with(|| dbg.offsets.clone()); then the
\* references in index order.  self is [map, panic]; panic is the
\* out-of-range index dbg.children[i].
collect(self, cell, d) ==
    LET hash  == repr_hash(cell)
        self1 == IF hash \in DOMAIN self.map
                 THEN self
                 ELSE [self EXCEPT !.map = BTreeMap_insert(@, hash, d.offsets)]
    IN  collect_references(self1, cell, d, 1)

collect_references(self, cell, d, i) ==
    IF self.panic \/ i > Len(cell.references)
    THEN self
    ELSE IF i > Len(d.children)
         THEN [self EXCEPT !.panic = TRUE]
         ELSE collect_references(
                  collect(self, cell.references[i], d.children[i]), cell, d, i + 1)

DbgInfo_from(cell, node) ==
    collect([map |-> EmptyMap, panic |-> FALSE], cell, node)

(***************************************************************************)
(* Inputs of the calls                                                     *)
(***************************************************************************)
Rep(n, b) == [i \in 1..n |-> b]

\* commands of 1 byte, of a full cell (127 bytes = 1016 bits) and of one
\* byte more
Commands == {<<1>>, Rep(127, 2), Rep(128, 3)}

\* opcodes of composite commands, of the same lengths
Opcodes == {<<5>>, Rep(127, 6), Rep(128, 7)}

Pos(line) == DbgPos("sample.code", line, line)

\* a debug node handed to write_command: positions of the command's
\* instructions, with or without a child subtree
CommandDbgs ==
    {DbgNode_from(Pos(1)), DbgNode_from_ext(Pos(1), <<DbgNode_from(Pos(2))>>)}

LeafBuilder == [data |-> <<0>>, length_in_bits |-> 8, references |-> <<>>]

TwoRefBuilder ==
    [data |-> <<0, 0>>, length_in_bits |-> 16,
     references |-> <<into_cell(LeafBuilder), into_cell(LeafBuilder)>>]

\* a child builder together with the debug node built in lockstep with it
References ==
    {[reference |-> LeafBuilder, dbg |-> DbgNode_from(Pos(3))],
     [reference |-> TwoRefBuilder,
      dbg |-> DbgNode_from_ext(Pos(3), <<DbgNode_from(Pos(4)), DbgNode_from(Pos(4))>>)]}

CompositePos == Pos(5)

(***************************************************************************)
(* The writer's life: new, writes, finalize, DbgInfo::from                 *)
(***************************************************************************)
Init ==
    /\ cells = CodePage0_new.cells
    /\ dbg = CodePage0_new.dbg
    /\ pc = "writing"
    /\ call = [op |-> "new"]
    /\ result = None
    /\ nwrites = 0
    /\ emitted = <<>>
    /\ finalize_self = None
    /\ cursor = None
    /\ cursor_dbg = None
    /\ info = None
    /\ DebugIdle /\ CodecIdle /\ AsmIdle /\ TextIdle

Self == [cells |-> cells, dbg |-> dbg]

Written(r, command) ==
    /\ cells' = r.cells
    /\ dbg' = r.dbg
    /\ result' = r.result
    /\ pc' = IF r.result = "panic" THEN "panicked" ELSE pc
    /\ emitted' = IF r.result = "Ok" THEN emitted \o command ELSE emitted
    /\ nwrites' = nwrites + 1
    /\ UNCHANGED <<finalize_self, cursor, cursor_dbg, info,
                   debug_vars, codec_vars, asm_vars, text_vars>>

WriteCommand ==
    /\ pc = "writing"
    /\ nwrites < MaxWrites
    /\ \E command \in Commands, d \in CommandDbgs :
          /\ call' = [op |-> "write_command", command |-> command, dbg |-> d]
          /\ Written(write_command(Self, command, d), command)

WriteCompositeCommand ==
    /\ pc = "writing"
    /\ nwrites < MaxWrites
    /\ \E command \in Opcodes, ref \in References :
          /\ call' = [op |-> "write_composite_command", command |-> command,
                      reference |-> ref.reference, pos |-> CompositePos,
                      dbg |-> ref.dbg]
          /\ Written(write_composite_command(Self, command, ref.reference,
                                             CompositePos, ref.dbg), command)

\* let mut cursor = self.cells.pop(); let mut dbg = self.dbg.pop();
FinalizePop ==
    /\ pc = "writing"
    /\ cells # <<>> /\ dbg # <<>>
    /\ finalize_self' = Self
    /\ cursor' = Last(cells)
    /\ cells' = SubSeq(cells, 1, Len(cells) - 1)
    /\ cursor_dbg' = Last(dbg)
    /\ dbg' = SubSeq(dbg, 1, Len(dbg) - 1)
    /\ pc' = "finalizing"
    /\ call' = [op |-> "finalize"]
    /\ result' = None
    /\ UNCHANGED <<nwrites, emitted, info, debug_vars, codec_vars, asm_vars, text_vars>>

chain_builder_reversed(destination, cur) == append_reference(cur, destination)

\* what one turn of the loop makes of the popped builder
chain_builder(destination, cur) == append_reference(destination, cur)

chain_dbg_front(next, d) ==
    IF Len(next.children) < 4
    THEN [panic |-> FALSE, node |-> [next EXCEPT !.children = <<d>> \o @]]
    ELSE [panic |-> TRUE, node |-> next]

\* what one turn of the loop makes of the popped node
chain_dbg(next, d) == append_node(next, d)

\* one turn of `while !self.cells.is_empty()`
FinalizeChain ==
    /\ pc = "finalizing"
    /\ cells # <<>>
    /\ LET next == chain_dbg(Last(dbg), cursor_dbg)
       IN  /\ cursor' = chain_builder(Last(cells), cursor)
           /\ cells' = SubSeq(cells, 1, Len(cells) - 1)
           /\ dbg' = SubSeq(dbg, 1, Len(dbg) - 1)
           /\ cursor_dbg' = next.node
           /\ pc' = IF next.panic THEN "panicked" ELSE pc
           /\ result' = IF next.panic THEN "panic" ELSE result
    /\ UNCHANGED <<call, nwrites, emitted, finalize_self, info,
                   debug_vars, codec_vars, asm_vars, text_vars>>

\* (cursor, dbg)
FinalizeReturn ==
    /\ pc = "finalizing"
    /\ cells = <<>>
    /\ pc' = "finalized"
    /\ result' = "Ok"
    /\ UNCHANGED <<cells, dbg, call, nwrites, emitted, finalize_self,
                   cursor, cursor_dbg, info, debug_vars, codec_vars, asm_vars, text_vars>>

\* DbgInfo::from(&cell, &node) on the finalized pair
DbgInfoFrom ==
    /\ pc = "finalized"
    /\ LET r == DbgInfo_from(into_cell(cursor), cursor_dbg)
       IN  /\ info' = r.map
           /\ pc' = IF r.panic THEN "panicked" ELSE "collected"
           /\ result' = IF r.panic THEN "panic" ELSE "Ok"
    /\ call' = [op |-> "DbgInfo::from"]
    /\ UNCHANGED <<cells, dbg, nwrites, emitted, finalize_self, cursor, cursor_dbg,
                   debug_vars, codec_vars, asm_vars, text_vars>>

Next ==
    \/ WriteCommand
    \/ WriteCompositeCommand
    \/ FinalizePop
    \/ FinalizeChain
    \/ FinalizeReturn
    \/ DbgInfoFrom

Spec == Init /\ [][Next]_vars

(***************************************************************************)
(* DbgInfo::from on its own: any root cell with any root DbgNode           *)
(***************************************************************************)
builder_of(cell) ==
    [data |-> cell.data, length_in_bits |-> cell.bit_length,
     references |-> cell.references]

Tree(cell, node) == [cell |-> cell, node |-> node]

\* a cell with the given data over the given trees, and its node
Over(byte, line, trees) ==
    Tree([data |-> <<byte>>, bit_length |-> 8,
          references |-> [i \in 1..Len(trees) |-> trees[i].cell]],
         [offsets |-> BTreeMap_insert(EmptyMap, 0, Pos(line)),
          children |-> [i \in 1..Len(trees) |-> trees[i].node]])

\* two different cells, each under two different positions
LeafTrees == {Over(byte, line, <<>>) : byte \in {0, 1}, line \in {1, 2}}

UpTo2(S) == {<<>>} \cup {<<a>> : a \in S} \cup {<<a, b>> : a \in S, b \in S}

MidTrees == {Over(2, 3, ts) : ts \in UpTo2(LeafTrees)}

DeepTrees ==
    {Over(3, 4, <<m>>) : m \in MidTrees}
        \cup {Over(3, 4, <<m, l>>) : m \in MidTrees, l \in LeafTrees}

\* a node that lost its last child: one child fewer than the cell has
\* references
Short(tree) ==
    Tree(tree.cell,
         [tree.node EXCEPT !.children = SubSeq(@, 1, Len(@) - 1)])

ShortTrees == {Short(t) : t \in {m \in MidTrees : m.cell.references # <<>>}}

InfoInputs == LeafTrees \cup MidTrees \cup DeepTrees \cup ShortTrees

InitInfo ==
    /\ \E t \in InfoInputs :
          /\ cursor = builder_of(t.cell)
          /\ cursor_dbg = t.node
    /\ pc = "finalized"
    /\ cells = <<>>
    /\ dbg = <<>>
    /\ call = [op |-> "input"]
    /\ result = None
    /\ nwrites = 0
    /\ emitted = <<>>
    /\ finalize_self = None
    /\ info = None
    /\ DebugIdle /\ CodecIdle /\ AsmIdle /\ TextIdle

NextInfo == DbgInfoFrom

SpecInfo == InitInfo /\ [][NextInfo]_vars

(***************************************************************************)
(* Observations on the finalized pair                                      *)
(***************************************************************************)
\* the bits of a byte string, most significant bit of each byte first
Bits(bytes) ==
    [i \in 1..(8 * Len(bytes)) |->
        (bytes[((i - 1) \div 8) + 1] \div (2 ^ (7 - ((i - 1) % 8)))) % 2]

\* the payload bits of a cell
Payload(cell) == SubSeq(Bits(cell.data), 1, cell.bit_length)

RECURSIVE SpineBits(_, _)
\* the payload bits of the first k cells of the spine, root first, each
\* next cell being the last reference of the previous one
SpineBits(cell, k) ==
    IF k <= 1
    THEN Payload(cell)
    ELSE Payload(cell) \o SpineBits(Last(cell.references), k - 1)

RECURSIVE SpineCongruent(_, _, _)
\* every node of the first k nodes of the spine has as many children as
\* its cell has references
SpineCongruent(cell, node, k) ==
    /\ Len(node.children) = Len(cell.references)
    /\ k > 1 => SpineCongruent(Last(cell.references), Last(node.children), k - 1)

Finalized == pc \in {"finalized", "collected"}

\* number of builders the writer held when finalize was called
SpineLength == Len(finalize_self.cells)

(***************************************************************************)
(* Claims                                                                  *)
(***************************************************************************)

\* C1: lockstep congruence -- at every index of the writer's two lists, and
\* at every node of the finalized spine, the DbgNode has exactly as many
\* children as its builder has references.
C1_LockstepCongruence ==
    /\ pc = "writing" =>
          \A i \in 1..Len(cells) :
              Len(dbg[i].children) = Len(cells[i].references)
    /\ Finalized => SpineCongruent(into_cell(cursor), cursor_dbg, SpineLength)

\* C2: spine bit order -- after finalize the payload bits of the cells along
\* the spine, root first, are the bits of the byte strings of the
\* successful write calls in call order.
C2_SpineBitOrder ==
    Finalized => SpineBits(into_cell(cursor), SpineLength) = Bits(emitted)

\* a finalized spine of three cells whose root also carries the reference
\* of a composite command
C2_Witness ==
    /\ pc = "finalized"
    /\ SpineLength = 3
    /\ Len(cursor.references) = 2
    /\ Len(emitted) > 127

\* C3: reserved reference slot -- every builder of the writer's list keeps
\* at least one reference slot free, so the builder finalize chains never
\* holds more than four references.
C3_ReservedSlot ==
    /\ \A i \in 1..Len(cells) : references_free(cells[i]) >= 1
    /\ (pc = "finalizing" \/ Finalized) => Len(cursor.references) <= MaxCellRefs

\* finalize chained a builder that had used its three unreserved slots
C3_Witness ==
    /\ pc = "finalized"
    /\ SpineLength = 2
    /\ Len(cursor.references) = MaxCellRefs

RECURSIVE SpineOffsetsInside(_, _, _)
\* every offset of the first k nodes of the spine lies inside its cell
SpineOffsetsInside(cell, node, k) ==
    /\ \A o \in DOMAIN node.offsets : 0 <= o /\ o < cell.bit_length
    /\ k > 1 => SpineOffsetsInside(Last(cell.references), Last(node.children), k - 1)

\* C4: debug offsets stay inside their cell -- after finalize every offset
\* key of the DbgNode of every spine cell is at least 0 and less than the
\* number of bits used in that cell.
C4_OffsetsInsideCell ==
    Finalized => SpineOffsetsInside(into_cell(cursor), cursor_dbg, SpineLength)

IsWrite(op) == call'.op = op /\ nwrites' = nwrites + 1

Front(s) == SubSeq(s, 1, Len(s) - 1)

\* C5: write_command returns NotFitInSlice exactly when the command is
\* longer than an empty cell; every shorter command succeeds, in the
\* current builder when it has room and otherwise in one fresh builder.
C5_WriteCommandOutcome ==
    [][IsWrite("write_command") =>
          LET command == call'.command
              bits    == 8 * Len(command)
              fits    == bits <= MaxCellBits
              room    == bits_used(Last(cells)) + bits <= MaxCellBits
          IN  /\ result' = "NotFitInSlice" <=> ~fits
              /\ fits => result' = "Ok"
              /\ room =>
                    /\ Len(cells') = Len(cells)
                    /\ Front(cells') = Front(cells)
                    /\ Last(cells') =
                          [Last(cells) EXCEPT !.data = @ \o command,
                                              !.length_in_bits = @ + bits]
              /\ (fits /\ ~room) =>
                    cells' = Append(cells, [data |-> command,
                                            length_in_bits |-> bits,
                                            references |-> <<>>])
              /\ ~fits => cells' = cells
      ]_vars

Sum(f) ==
    LET RECURSIVE S(_)
        S(i) == IF i = 0 THEN 0 ELSE f[i] + S(i - 1)
    IN  S(Len(f))

TotalBits(bs) == Sum([i \in 1..Len(bs) |-> bs[i].length_in_bits])

TotalRefs(bs) == Sum([i \in 1..Len(bs) |-> Len(bs[i].references)])

\* C6: write_composite_command emits into the current builder exactly when
\* that builder has two free reference slots and room for the opcode,
\* otherwise pushes one fresh builder holding the opcode and the reference;
\* it returns NotFitInSlice only when the opcode does not fit an empty
\* cell; a successful call adds the opcode's bits and one reference to one
\* builder.
C6_CompositePlacement ==
    [][IsWrite("write_composite_command") =>
          LET command  == call'.command
              cell     == into_cell(call'.reference)
              bits     == 8 * Len(command)
              last     == Last(cells)
              fits     == bits <= MaxCellBits
              in_place == /\ references_free(last) >= 2
                          /\ bits_used(last) + bits <= MaxCellBits
          IN  /\ in_place =>
                    /\ Len(cells') = Len(cells)
                    /\ Front(cells') = Front(cells)
                    /\ Last(cells') =
                          [data |-> last.data \o command,
                           length_in_bits |-> last.length_in_bits + bits,
                           references |-> Append(last.references, cell)]
              /\ (~in_place /\ fits) =>
                    cells' = Append(cells, [data |-> command,
                                            length_in_bits |-> bits,
                                            references |-> <<cell>>])
              /\ result' = "NotFitInSlice" <=> ~fits
              /\ ~fits => cells' = cells
              /\ result' = "Ok" =>
                    /\ TotalBits(cells') = TotalBits(cells) + bits
                    /\ TotalRefs(cells') = TotalRefs(cells) + 1
                    /\ Cardinality({i \in 1..Len(cells') :
                          i > Len(cells) \/ cells'[i] # cells[i]}) = 1
      ]_vars

\* a composite command went to a fresh builder because the current one,
\* far from full, had only its reserved reference slot left
C6_Witness ==
    /\ call.op = "write_composite_command"
    /\ result = "Ok"
    /\ pc = "writing"
    /\ Len(cells) = 2
    /\ Len(cells[1].references) = 3
    /\ cells[1].length_in_bits = 24
    /\ Len(cells[2].references) = 1

\* C7: both emission paths of write_composite_command record the same
\* debug structure -- the node pushed with a fresh builder is what the
\* in-place path makes of an empty node at offset 0.
C7_SameDebugOnBothPaths ==
    [][(/\ IsWrite("write_composite_command")
        /\ result' = "Ok"
        /\ Len(cells') = Len(cells) + 1) =>
          Last(dbg') = composite_dbg_in_place(DbgNode_new, 0, call'.command,
                                              call'.pos, call'.dbg).node
      ]_vars

RECURSIVE IsChain(_, _, _, _)
\* cell and node are the chain of the given builders and nodes: each
\* builder followed by the next one as last reference, each node by the
\* next one as last child, and nothing else changed
IsChain(bs, ns, cell, node) ==
    IF Len(bs) = 1
    THEN /\ cell = into_cell(bs[1])
         /\ node = ns[1]
    ELSE /\ cell.data = bs[1].data
         /\ cell.bit_length = bs[1].length_in_bits
         /\ Front(cell.references) = bs[1].references
         /\ node.offsets = ns[1].offsets
         /\ Front(node.children) = ns[1].children
         /\ Len(cell.references) = Len(bs[1].references) + 1
         /\ Len(node.children) = Len(ns[1].children) + 1
         /\ IsChain(Tail(bs), Tail(ns), Last(cell.references), Last(node.children))

\* C8: finalize on k builders returns the chain of depth k-1 of the
\* builders and of the nodes, everything else as it was; a single builder
\* and node are returned unchanged.
C8_FinalizeChains ==
    pc = "finalized" =>
        /\ IsChain(finalize_self.cells, finalize_self.dbg, into_cell(cursor), cursor_dbg)
        /\ SpineLength = 1 =>
              cursor = finalize_self.cells[1] /\ cursor_dbg = finalize_self.dbg[1]

\* finalize chained three builders, the first of which had a reference and
\* a child of its own
C8_Witness ==
    /\ pc = "finalized"
    /\ SpineLength = 3
    /\ Len(finalize_self.cells[1].references) = 1
    /\ Len(finalize_self.dbg[1].children) = 1
    /\ Len(cursor.references) = 2

RECURSIVE ReachableHashes(_)
\* the hashes of the cells reachable from a cell, itself included
ReachableHashes(cell) ==
    {repr_hash(cell)} \cup
        UNION {ReachableHashes(cell.references[i]) : i \in 1..Len(cell.references)}

RECURSIVE DeepCongruent(_, _)
\* the node tree has the shape of the cell tree
DeepCongruent(cell, node) ==
    /\ Len(node.children) = Len(cell.references)
    /\ \A i \in 1..Len(cell.references) :
          DeepCongruent(cell.references[i], node.children[i])

FromReturned == call.op = "DbgInfo::from"

\* C9: for a root cell and a congruent root DbgNode the keys of
\* DbgInfo::from(cell, node) are exactly the hashes of the cells reachable
\* from the root.
C9_KeysAreReachableHashes ==
    (FromReturned /\ DeepCongruent(into_cell(cursor), cursor_dbg)) =>
        /\ pc = "collected"
        /\ DOMAIN info = ReachableHashes(into_cell(cursor))

\* DbgInfo::from returned for a tree of depth two in which a cell occurs
\* twice
C9_Witness ==
    /\ pc = "collected"
    /\ DeepCongruent(into_cell(cursor), cursor_dbg)
    /\ Len(cursor.references) = 2
    /\ Len(cursor.references[1].references) = 2
    /\ cursor.references[1].references[2] = cursor.references[2]
    /\ Cardinality(DOMAIN info) = 4

RECURSIVE Preorder(_, _)
\* the (hash, offsets) pairs of a tree in preorder: a cell before its
\* references, references in index order
Preorder(cell, node) ==
    LET RECURSIVE Refs(_)
        Refs(i) == IF i > Len(cell.references)
                   THEN <<>>
                   ELSE Preorder(cell.references[i], node.children[i]) \o Refs(i + 1)
    IN  <<[hash |-> repr_hash(cell), offsets |-> node.offsets]>> \o Refs(1)

\* the index of the first occurrence of a hash in a preorder
First(seq, hash) ==
    CHOOSE i \in 1..Len(seq) :
        /\ seq[i].hash = hash
        /\ \A j \in 1..(i - 1) : seq[j].hash # hash

\* C10: when a hash occurs several times in the tree, its entry is the
\* offset map of the occurrence visited first in preorder.
C10_FirstOccurrenceWins ==
    pc = "collected" =>
        LET seq == Preorder(into_cell(cursor), cursor_dbg)
        IN  \A h \in DOMAIN info : info[h] = seq[First(seq, h)].offsets

\* DbgInfo::from returned for a tree in which a cell occurs twice with
\* different offset maps, the first occurrence lying deeper than the second
C10_Witness ==
    /\ pc = "collected"
    /\ Len(cursor.references) = 2
    /\ Len(cursor.references[1].references) >= 1
    /\ cursor.references[1].references[1] = cursor.references[2]
    /\ cursor_dbg.children[1].children[1].offsets # cursor_dbg.children[2].offsets

(***************************************************************************)
(* DbgInfo as a container: default, insert, append, and its JSON form      *)
(***************************************************************************)
\* DbgInfo::insert: self.map.entry(key.inner()).or_insert(tree)
DbgInfo_insert(map, key, tree) ==
    IF key \in DOMAIN map THEN map ELSE BTreeMap_insert(map, key, tree)

\* BTreeMap::append: moves all elements of `from` into map; a key that both
\* have takes the value of `from`; `from` is left empty
BTreeMap_append(map, from) ==
    [self  |-> [k \in DOMAIN map \cup DOMAIN from |->
                   IF k \in DOMAIN from THEN from[k] ELSE map[k]],
     other |-> EmptyMap]

\* DbgInfo::append: self.map.append(&mut other.map)
DbgInfo_append(map, from) == BTreeMap_append(map, from)

\* a position as bin/asm.rs read() makes it: line_code 0
ReadPos(line) == DbgPos("sample.code", line, 0)

\* offset maps: positions as Line::new makes them (line_code = line) and
\* as read() makes them
OffsetMaps ==
    {BTreeMap_insert(EmptyMap, 0, Pos(1)),
     BTreeMap_insert(BTreeMap_insert(EmptyMap, 0, Pos(2)), 8, Pos(1)),
     BTreeMap_insert(EmptyMap, 0, ReadPos(1))}

\* the hashes of two different cells
HashKeys == {repr_hash(t.cell) : t \in LeafTrees}

\* the DbgInfo values handed to append
OtherInfos ==
    UNION {[keys -> OffsetMaps] : keys \in SUBSET HashKeys}

\* DbgInfo::default()
InitDbgInfo ==
    /\ info = EmptyMap
    /\ pc = "holding"
    /\ call = [op |-> "DbgInfo::default"]
    /\ result = None
    /\ WriterIdle /\ DebugIdle /\ CodecIdle /\ AsmIdle /\ TextIdle

DbgInfoInsert ==
    /\ pc = "holding"
    /\ \E key \in HashKeys, tree \in OffsetMaps :
          /\ info' = DbgInfo_insert(info, key, tree)
          /\ call' = [op |-> "insert", key |-> key, tree |-> tree]
    /\ UNCHANGED <<pc, result, writer_vars, debug_vars, codec_vars, asm_vars, text_vars>>

DbgInfoAppend ==
    /\ pc = "holding"
    /\ \E from \in OtherInfos :
          LET r == DbgInfo_append(info, from)
          IN  /\ info' = r.self
              /\ other_info' = r.other
              /\ call' = [op |-> "append", other |-> from]
    /\ UNCHANGED <<pc, result, writer_vars, json, restored, lhs, rhs,
                   codec_vars, asm_vars, text_vars>>


\* #[derive(PartialEq, Eq)] on DbgPos: field by field, all three fields
DbgPos_eq(a, b) ==
    a.filename = b.filename /\ a.line = b.line /\ a.line_code = b.line_code

\* equality of the maps of two DbgInfo: same keys, same offsets, equal
\* positions
DbgInfo_eq(a, b) ==
    /\ DOMAIN a = DOMAIN b
    /\ \A h \in DOMAIN a :
          /\ DOMAIN a[h] = DOMAIN b[h]
          /\ \A o \in DOMAIN a[h] : DbgPos_eq(a[h][o], b[h][o])

\* #[derive(Serialize)] on DbgPos: filename and line; line_code is
\* #[serde(skip)]
DbgPos_serialize(p) == [filename |-> p.filename, line |-> p.line]

\* #[derive(Deserialize)] on DbgPos: the skipped field takes its Default
DbgPos_deserialize(o) == DbgPos(o.filename, o.line, 0)

\* the key of the given universe that a JSON member name spells
ParseKey(name, universe) == CHOOSE k \in universe : ToString(k) = name

\* the JSON object of an offset map: member names are the offsets as text
OffsetMap_serialize(tree) ==
    [name \in {ToString(k) : k \in DOMAIN tree} |->
        DbgPos_serialize(tree[ParseKey(name, DOMAIN tree)])]

OffsetMap_deserialize(object) ==
    [k \in {ParseKey(name, 0..MaxCellBits) : name \in DOMAIN object} |->
        DbgPos_deserialize(object[ToString(k)])]

\* serde_json::to_string_pretty(&DbgInfo): member names are the hashes as
\* text
DbgInfo_serialize(map) ==
    [name \in {ToString(k) : k \in DOMAIN map} |->
        OffsetMap_serialize(map[ParseKey(name, DOMAIN map)])]

\* serde_json::from_str::<DbgInfo>
DbgInfo_deserialize(object) ==
    [k \in {ParseKey(name, HashKeys) : name \in DOMAIN object} |->
        OffsetMap_deserialize(object[ToString(k)])]

\* let s1 = to_string_pretty(&d1); let d2 = from_str(&s1)
DbgInfoSerDes ==
    /\ pc = "holding"
    /\ json' = DbgInfo_serialize(info)
    /\ restored' = DbgInfo_deserialize(json')
    /\ pc' = "restored"
    /\ call' = [op |-> "serdes"]
    /\ UNCHANGED <<info, result, writer_vars, other_info, lhs, rhs,
                   codec_vars, asm_vars, text_vars>>

NextDbgInfo ==
    \/ DbgInfoInsert
    \/ DbgInfoAppend
    \/ DbgInfoSerDes

SpecDbgInfo == InitDbgInfo /\ [][NextDbgInfo]_vars


\* C11: no insert or append call changes the offset map already stored
\* under a hash -- every hash present before the call is present after it
\* with the same offset map (first stored wins).
C11_NeverOverwritten ==
    [][\A h \in DOMAIN info : h \in DOMAIN info' /\ info'[h] = info[h]]_vars

\* C13: the DbgInfo read back from the JSON of a DbgInfo is equal to it:
\* same hashes, same offsets, equal DbgPos under every offset.
C13_SerDesRoundTrip ==
    pc = "restored" => DbgInfo_eq(info, restored)


(***************************************************************************)
(* Comparing two DbgPos                                                    *)
(***************************************************************************)
\* Line::new_extended
Line_new_extended(text, filename, line, line_code) ==
    [text |-> text, pos |-> DbgPos(filename, line, line_code)]

\* Line::new: line_code is the line
Line_new(text, filename, line) == Line_new_extended(text, filename, line, line)

FileNames == {"a.code", "b.code"}

MaxLine == 3

\* positions of lines made by Line::new, by Line::new_extended and by
\* read() of bin/asm.rs (line_code 0)
Positions ==
    {Line_new("", f, l).pos : f \in FileNames, l \in 1..MaxLine}
        \cup {Line_new_extended("", f, l, c).pos :
                 f \in FileNames, l \in 1..MaxLine, c \in 0..1}

InitPos ==
    /\ lhs \in Positions
    /\ rhs \in Positions
    /\ pc = "comparing"
    /\ call = [op |-> "input"]
    /\ result = None
    /\ info = None /\ other_info = None /\ json = None /\ restored = None
    /\ WriterIdle /\ CodecIdle /\ AsmIdle /\ TextIdle

\* lhs == rhs
DbgPosEq ==
    /\ pc = "comparing"
    /\ result' = DbgPos_eq(lhs, rhs)
    /\ pc' = "compared"
    /\ call' = [op |-> "eq"]
    /\ UNCHANGED <<info, writer_vars, debug_vars, codec_vars, asm_vars, text_vars>>

NextPos == DbgPosEq

SpecPos == InitPos /\ [][NextPos]_vars

\* C12: two positions compare equal exactly when their filename and line
\* are equal, whatever their line_code.
C12_EqualityIgnoresLineCode ==
    pc = "compared" =>
        (result <=> (lhs.filename = rhs.filename /\ lhs.line = rhs.line))


(***************************************************************************)
(* The children of the writer's debug nodes                                *)
(***************************************************************************)
RECURSIVE NodesOf(_)
\* a node and all nodes below it
NodesOf(node) ==
    {node} \cup UNION {NodesOf(node.children[i]) : i \in 1..Len(node.children)}

\* every node the writer holds: those of self.dbg and, once finalize has
\* popped it, the local dbg
WriterNodes ==
    UNION {NodesOf(dbg[i]) : i \in 1..Len(dbg)}
        \cup (IF call.op \in {"finalize", "DbgInfo::from"}
              THEN NodesOf(cursor_dbg) ELSE {})

\* C14: no node of the writer has more than 4 children, and append_node on
\* such a node succeeds, adding one child, exactly when the node has 0 to 3
\* children; on a node with 4 children the assertion fails.
C14_ChildrenLimit ==
    \A node \in WriterNodes :
        /\ Len(node.children) <= 4
        /\ LET r == append_node(node, DbgNode_new)
           IN  IF Len(node.children) <= 3
               THEN ~r.panic /\ Len(r.node.children) = Len(node.children) + 1
               ELSE r.panic

\* a write panicked on a node that holds 4 children
C14_Witness ==
    /\ pc = "panicked"
    /\ call.op \in {"write_command", "write_composite_command"}
    /\ \E i \in 1..Len(dbg) : Len(dbg[i].children) = 4


(***************************************************************************)
(* Integer codec of PUSHINT.  A BigInt is [sign, mag]: sign is "Plus",     *)
(* "Minus" or "NoSign" (zero), mag the magnitude as big-endian bytes       *)
(* without leading zero bytes.  A u32 is kept as its four bytes, most      *)
(* significant first, so that shifts and wrapping additions lose exactly   *)
(* the bits the 32-bit word loses.                                         *)
(***************************************************************************)
RECURSIVE Strip(_)
\* the byte string without its leading zero bytes
Strip(bytes) ==
    IF bytes # <<>> /\ Head(bytes) = 0 THEN Strip(Tail(bytes)) ELSE bytes

\* BigInt::from_biguint: zero has no sign
BigInt_from_biguint(sign, mag) ==
    IF Strip(mag) = <<>>
    THEN [sign |-> "NoSign", mag |-> <<>>]
    ELSE [sign |-> sign, mag |-> Strip(mag)]

RECURSIVE DigitBytes(_)
\* the bytes of a Vec<u32> of digits, least significant digit first, as
\* one big-endian byte string
DigitBytes(digits) ==
    IF digits = <<>> THEN <<>> ELSE DigitBytes(Tail(digits)) \o Head(digits)

\* BigInt::new(sign, digits)
BigInt_new(sign, digits) == BigInt_from_biguint(sign, DigitBytes(digits))

\* !d on a u32
u32_not(d) == [i \in 1..4 |-> 255 - d[i]]

\* d.wrapping_add(1) on a u32
u32_wrapping_add_1(d) ==
    IF d[4] < 255 THEN <<d[1], d[2], d[3], d[4] + 1>>
    ELSE IF d[3] < 255 THEN <<d[1], d[2], d[3] + 1, 0>>
    ELSE IF d[2] < 255 THEN <<d[1], d[2] + 1, 0, 0>>
    ELSE IF d[1] < 255 THEN <<d[1] + 1, 0, 0, 0>>
    ELSE <<0, 0, 0, 0>>

u32_shl16_or(d, byte) == <<d[3], d[4], 0, byte>>

\* value <<= 8; value |= byte as u32
u32_shl8_or(d, byte) == <<d[2], d[3], d[4], byte>>

RECURSIVE twos_complement_from(_, _)
\* the loop of twos_complement over the remaining digits, least
\* significant first, with the carry so far
twos_complement_from(digits, carry) ==
    IF digits = <<>>
    THEN <<>>
    ELSE LET flipped == u32_not(Head(digits))
             d       == IF carry THEN u32_wrapping_add_1(flipped) ELSE flipped
             carry1  == IF carry THEN d = <<0, 0, 0, 0>> ELSE carry
         IN  <<d>> \o twos_complement_from(Tail(digits), carry1)

twos_complement_no_increment(digits) == twos_complement_from(digits, FALSE)

\* twos_complement: flip every digit and add one, from the least
\* significant digit
twos_complement(digits) == twos_complement_from(digits, TRUE)

RECURSIVE read_upper(_, _, _)
\* for _ in 1..upper { value <<= 8; value |= get_next_byte()? as u32 }
\* with `count` turns left; Err when the stream runs out
read_upper(d, stream, count) ==
    IF count = 0 THEN [err |-> FALSE, value |-> d, stream |-> stream]
    ELSE IF stream = <<>> THEN [err |-> TRUE, value |-> d, stream |-> stream]
    ELSE read_upper(u32_shl8_or(d, Head(stream)), Tail(stream), count - 1)

RECURSIVE read_digits(_, _)
\* for i in (0..last_index).rev(): four bytes, big-endian, into digits[i];
\* returns the digits least significant first
read_digits(stream, count) ==
    IF count = 0 THEN [err |-> FALSE, digits |-> <<>>, stream |-> stream]
    ELSE IF Len(stream) < 4
         THEN [err |-> TRUE, digits |-> <<>>, stream |-> <<>>]
         ELSE LET lower == read_digits(SubSeq(stream, 5, Len(stream)), count - 1)
              IN  [lower EXCEPT !.digits = @ \o <<SubSeq(stream, 1, 4)>>]


upper_bytes_unadjusted(byte_len) == byte_len % 4

\* let mut upper = byte_len & 0b11; if upper == 0 { upper = 4 }
upper_bytes(byte_len) == IF byte_len % 4 = 0 THEN 4 ELSE byte_len % 4

\* from_big_endian_octet_stream over a stream of bytes: [err, value, rest],
\* rest being what the calls of get_next_byte left in the stream
from_big_endian_octet_stream(stream) ==
    IF stream = <<>>
    THEN [err |-> TRUE, value |-> None, rest |-> stream]
    ELSE LET first_byte    == Head(stream)
             byte_len      == (first_byte \div 8) + 3
             greatest3bits == first_byte % 8
             digit_count   == (byte_len + 3) \div 4
             sign          == IF greatest3bits \div 4 = 0 THEN "Plus" ELSE "Minus"
             value         == IF sign = "Plus"
                              THEN <<0, 0, 0, greatest3bits>>
                              ELSE <<255, 255, 255, 248 + greatest3bits>>
             upper         == upper_bytes(byte_len)
             top           == read_upper(value, Tail(stream), upper - 1)
             low           == read_digits(top.stream, digit_count - 1)
             digits        == low.digits \o <<top.value>>
         IN  IF top.err THEN [err |-> TRUE, value |-> None, rest |-> <<>>]
             ELSE IF low.err THEN [err |-> TRUE, value |-> None, rest |-> <<>>]
             ELSE [err |-> FALSE,
                   value |-> BigInt_new(sign, IF sign = "Minus"
                                              THEN twos_complement(digits)
                                              ELSE digits),
                   rest |-> low.stream]

\* number of significant bits of a byte
ByteBits(b) == IF b = 0 THEN 0 ELSE CHOOSE k \in 1..8 : 2 ^ (k - 1) <= b /\ b < 2 ^ k

\* BigInt::bits: number of bits of the magnitude
MagBits(mag) == IF mag = <<>> THEN 0 ELSE 8 * (Len(mag) - 1) + ByteBits(mag[1])

IsPowerOfTwo(mag) ==
    /\ mag # <<>>
    /\ mag[1] = 2 ^ (ByteBits(mag[1]) - 1)
    /\ \A i \in 2..Len(mag) : mag[i] = 0

bitsize_of_magnitude(n) == MagBits(n.mag)

\* bits of the shortest two's-complement form of the integer, sign included
bitsize(n) ==
    IF n.sign = "NoSign" THEN 1
    ELSE IF n.sign = "Minus" /\ IsPowerOfTwo(n.mag) THEN MagBits(n.mag)
    ELSE MagBits(n.mag) + 1

RECURSIVE DecBytes(_)
\* the byte string of the same length that spells one less (not for zero)
DecBytes(bytes) ==
    IF Last(bytes) > 0
    THEN Front(bytes) \o <<Last(bytes) - 1>>
    ELSE DecBytes(Front(bytes)) \o <<255>>

RECURSIVE IncBytes(_)
\* the byte string that spells one more, a byte longer on overflow
IncBytes(bytes) ==
    IF bytes = <<>> THEN <<1>>
    ELSE IF Last(bytes) < 255
         THEN Front(bytes) \o <<Last(bytes) + 1>>
         ELSE IncBytes(Front(bytes)) \o <<0>>

\* n in two's complement over `width` bytes, big-endian
SignedBytes(n, width) ==
    LET padded == Rep(width - Len(n.mag), 0) \o n.mag
    IN  IF n.sign = "Minus"
        THEN [i \in 1..width |-> 255 - DecBytes(padded)[i]]
        ELSE padded


MaxIntegerBits_255 == 257 - 1

\* the widest integer the encoder takes, in bits of its two's-complement
\* form: -2^256 .. 2^256 - 1
MaxIntegerBits == 257

to_big_endian_octet_string_258(n) ==
    LET byte_len == IF bitsize(n) + 12 < 32 THEN 3 ELSE (bitsize(n) + 12) \div 8
        field    == SignedBytes(n, byte_len)
    IN  IF bitsize(n) > MaxIntegerBits + 1
        THEN [some |-> FALSE, bytes |-> <<>>]
        ELSE [some |-> TRUE,
              bytes |-> <<(byte_len - 3) * 8 + (field[1] % 8)>> \o Tail(field)]

\* to_big_endian_octet_string: None on overflow, else the length byte with
\* the top three bits of the field, then the rest of the field
to_big_endian_octet_string(n) ==
    LET byte_len == IF bitsize(n) + 12 < 32 THEN 3 ELSE (bitsize(n) + 12) \div 8
        field    == SignedBytes(n, byte_len)
    IN  IF bitsize(n) > MaxIntegerBits
        THEN [some |-> FALSE, bytes |-> <<>>]
        ELSE [some |-> TRUE,
              bytes |-> <<(byte_len - 3) * 8 + (field[1] % 8)>> \o Tail(field)]

TestVector(sign, mag, bytes) ==
    [value |-> [sign |-> sign, mag |-> mag], bytes |-> bytes]

\* the literals of the encoder's tests with the bytes they expect
TestVectors == {
    \* 0
    TestVector("NoSign", <<>>,
               <<0, 0, 0>>),
    \* 12345678
    TestVector("Plus", <<188, 97, 78>>,
               <<8, 188, 97, 78>>),
    \* -12345678
    TestVector("Minus", <<188, 97, 78>>,
               <<15, 67, 158, 178>>),
    \* 1234567
    TestVector("Plus", <<18, 214, 135>>,
               <<8, 18, 214, 135>>),
    \* -1234567
    TestVector("Minus", <<18, 214, 135>>,
               <<15, 237, 41, 121>>),
    \* 65535
    TestVector("Plus", <<255, 255>>,
               <<0, 255, 255>>),
    \* 65536
    TestVector("Plus", <<1, 0, 0>>,
               <<1, 0, 0>>),
    \* 131072
    TestVector("Plus", <<2, 0, 0>>,
               <<2, 0, 0>>),
    \* 262144
    TestVector("Plus", <<4, 0, 0>>,
               <<8, 4, 0, 0>>),
    \* 4294967296
    TestVector("Plus", <<1, 0, 0, 0, 0>>,
               <<17, 0, 0, 0, 0>>),
    \* -123456789123456789123456789123456789
    TestVector("Minus", <<23, 198, 227, 192, 50, 248, 144, 69, 173, 116, 102, 132, 4,
               95, 21>>,
               <<111, 232, 57, 28, 63, 205, 7, 111, 186, 82, 139, 153, 123,
               251, 160, 235>>),
    \* -123456789123456789123456789123456789123456789123456789
    TestVector("Minus", <<1, 73, 248, 144, 32, 75, 36, 181, 121, 121, 40, 77, 64, 96,
               225, 7, 232, 112, 182, 132, 4, 95, 21>>,
               <<166, 182, 7, 111, 223, 180, 219, 74, 134, 134, 215, 178,
               191, 159, 30, 248, 23, 143, 73, 123, 251, 160, 235>>),
    \* 123456789123456789123456789123456789
    TestVector("Plus", <<23, 198, 227, 192, 50, 248, 144, 69, 173, 116, 102, 132, 4,
               95, 21>>,
               <<104, 23, 198, 227, 192, 50, 248, 144, 69, 173, 116, 102,
               132, 4, 95, 21>>),
    \* 123456789123456789123456789123456789123456789123456789
    TestVector("Plus", <<1, 73, 248, 144, 32, 75, 36, 181, 121, 121, 40, 77, 64, 96,
               225, 7, 232, 112, 182, 132, 4, 95, 21>>,
               <<161, 73, 248, 144, 32, 75, 36, 181, 121, 121, 40, 77, 64,
               96, 225, 7, 232, 112, 182, 132, 4, 95, 21>>)}


\* 2^256 - 1, -(2^256 - 1) and -2^256 with the 33 bytes their tests expect
ExtremeVectors ==
    {TestVector("Plus", Rep(32, 255), <<240>> \o Rep(32, 255)),
     TestVector("Minus", Rep(32, 255), <<247>> \o Rep(31, 0) \o <<1>>),
     TestVector("Minus", <<1>> \o Rep(32, 0), <<247>> \o Rep(32, 0))}

\* 2^256 and -2^256 - 1, which the tests expect to overflow
OverflowLiterals ==
    {[sign |-> "Plus", mag |-> <<1>> \o Rep(32, 0)],
     [sign |-> "Minus", mag |-> <<1>> \o Rep(31, 0) \o <<1>>]}

RECURSIVE NatBytes(_)
\* the big-endian bytes of a natural number
NatBytes(n) == IF n = 0 THEN <<>> ELSE NatBytes(n \div 256) \o <<n % 256>>

\* BigInt::from(i)
BigInt_from(i) ==
    IF i < 0 THEN BigInt_from_biguint("Minus", NatBytes(0 - i))
    ELSE BigInt_from_biguint("Plus", NatBytes(i))

\* the magnitude 2^k
Pow2(k) == <<2 ^ (k % 8)>> \o Rep(k \div 8, 0)

MaxSmall == 260

MaxPower == 258

MaxPatternLen == 34

Signs == {"Plus", "Minus"}

\* the integers given to the encoder: the small ones, those next to every
\* power of two up to 2^MaxPower, byte patterns of every length, and the
\* literals of the tests
Numbers ==
    {BigInt_from(i) : i \in (0 - MaxSmall)..MaxSmall}
        \cup {BigInt_from_biguint(sign, mag) :
                 sign \in Signs,
                 mag \in UNION {{DecBytes(Pow2(k)), Pow2(k), IncBytes(Pow2(k))} :
                                   k \in 0..MaxPower}}
        \cup {BigInt_from_biguint(sign, [i \in 1..len |-> IF up THEN i ELSE 256 - i]) :
                 sign \in Signs, len \in 1..MaxPatternLen, up \in BOOLEAN}
        \cup {v.value : v \in TestVectors \cup ExtremeVectors}
        \cup OverflowLiterals

InitCodec ==
    /\ number \in Numbers
    /\ octets = None /\ decoded = None /\ rest = None
    /\ pc = "encoding"
    /\ call = [op |-> "input"]
    /\ result = None
    /\ info = None
    /\ WriterIdle /\ DebugIdle /\ AsmIdle /\ TextIdle

\* let serialized = to_big_endian_octet_string(&value)
Encode ==
    /\ pc = "encoding"
    /\ octets' = to_big_endian_octet_string(number)
    /\ pc' = IF octets'.some THEN "encoded" ELSE "overflow"
    /\ call' = [op |-> "to_big_endian_octet_string"]
    /\ UNCHANGED <<result, info, number, decoded, rest,
                   writer_vars, debug_vars, asm_vars, text_vars>>

\* let mut iterator = serialized.iter();
\* let deserialized = from_big_endian_octet_stream(|| Ok(*iterator.next().unwrap()))
Decode ==
    /\ pc = "encoded"
    /\ LET r == from_big_endian_octet_stream(octets.bytes)
       IN  /\ decoded' = r.value
           /\ rest' = r.rest
           /\ pc' = IF r.err THEN "failed" ELSE "decoded"
    /\ call' = [op |-> "from_big_endian_octet_stream"]
    /\ UNCHANGED <<result, info, number, octets,
                   writer_vars, debug_vars, asm_vars, text_vars>>

NextCodec ==
    \/ Encode
    \/ Decode

SpecCodec == InitCodec /\ [][NextCodec]_vars

\* C15: the decoder, given the bytes the encoder produced for n, returns n
\* and leaves no byte unread.
C15_CodecRoundTrip ==
    /\ pc = "decoded" => decoded = number /\ rest = <<>>
    /\ pc # "failed"

C15_Witness ==
    /\ pc = "decoded"
    /\ number.sign = "Minus"
    /\ Len(octets.bytes) = 33
    /\ decoded = number


\* a < b on magnitudes
MagLess(a, b) ==
    \/ Len(a) < Len(b)
    \/ /\ Len(a) = Len(b)
       /\ \E i \in 1..Len(a) :
             a[i] < b[i] /\ \A j \in 1..(i - 1) : a[j] = b[j]

\* -2^k <= n <= 2^k - 1
WithinPow2(n, k) ==
    IF n.sign = "Minus" THEN ~MagLess(Pow2(k), n.mag) ELSE MagLess(n.mag, Pow2(k))

Encoded == pc \in {"encoded", "overflow", "decoded"}

\* C16: the encoder returns bytes exactly for -2^256 <= n <= 2^256 - 1 and
\* None for every other integer; 2^256 - 1 encodes to 33 bytes starting with
\* 0xF0, -(2^256 - 1) and -2^256 to 33 bytes starting with 0xF7.
C16_EncodableRange ==
    Encoded =>
        /\ octets.some <=> WithinPow2(number, 256)
        /\ number \in OverflowLiterals => ~octets.some
        /\ \A v \in ExtremeVectors :
              number = v.value =>
                  /\ octets = [some |-> TRUE, bytes |-> v.bytes]
                  /\ Len(octets.bytes) = 33
                  /\ octets.bytes[1] = (IF number.sign = "Minus" THEN 247 ELSE 240)

\* -2^256 was encoded
C16_Witness ==
    /\ pc = "encoded"
    /\ number = [sign |-> "Minus", mag |-> Pow2(256)]
    /\ octets.bytes[1] = 247

\* C17 as stated: 2^255 - 1 and -2^255 encode, 2^255 and -2^255 - 1
\* overflow.
C17_Limit255 ==
    Encoded =>
        /\ number = BigInt_from_biguint("Plus", DecBytes(Pow2(255))) => octets.some
        /\ number = [sign |-> "Plus", mag |-> Pow2(255)] => ~octets.some
        /\ number = [sign |-> "Minus", mag |-> Pow2(255)] => octets.some
        /\ number = [sign |-> "Minus", mag |-> IncBytes(Pow2(255))] => ~octets.some

\* C17, amended: 2^256 - 1 and -2^256 encode, 2^256 and -2^256 - 1
\* overflow.
C17_Limit256 ==
    Encoded =>
        /\ number = BigInt_from_biguint("Plus", DecBytes(Pow2(256))) => octets.some
        /\ number = [sign |-> "Plus", mag |-> Pow2(256)] => ~octets.some
        /\ number = [sign |-> "Minus", mag |-> Pow2(256)] => octets.some
        /\ number = [sign |-> "Minus", mag |-> IncBytes(Pow2(256))] => ~octets.some

\* 2^256 - 1 was encoded
C17_Witness ==
    /\ pc = "encoded"
    /\ number = BigInt_from_biguint("Plus", DecBytes(Pow2(256)))

\* the integer a big-endian two's-complement byte string spells
TwosValue(bytes) ==
    IF bytes[1] >= 128
    THEN BigInt_from_biguint("Minus", IncBytes([i \in 1..Len(bytes) |-> 255 - bytes[i]]))
    ELSE BigInt_from_biguint("Plus", bytes)

\* the field of an encoding as whole bytes: the three bits of the first
\* byte extended by their sign bit, then the other bytes
FieldBytes(bytes) ==
    LET top == bytes[1] % 8
    IN  <<IF top >= 4 THEN 248 + top ELSE top>> \o Tail(bytes)

\* C18: an encoding has the least length byte_len >= 3 whose field of
\* 8*byte_len - 5 bits holds n; its first byte is (byte_len - 3) << 3 with
\* the top three bits of the field, the other bytes are the rest of the
\* field, big-endian; 65535 takes 3 bytes, 262144 takes 4, and the
\* literals of the tests give the bytes the tests expect.
C18_EncodingLayout ==
    Encoded /\ octets.some =>
        LET byte_len == Len(octets.bytes)
        IN  /\ byte_len >= 3
            /\ WithinPow2(number, 8 * byte_len - 6)
            /\ byte_len > 3 => ~WithinPow2(number, 8 * (byte_len - 1) - 6)
            /\ octets.bytes[1] \div 8 = byte_len - 3
            /\ TwosValue(FieldBytes(octets.bytes)) = number
            /\ number = BigInt_from(65535) => byte_len = 3
            /\ number = BigInt_from(262144) => byte_len = 4
            /\ \A v \in TestVectors : number = v.value => octets.bytes = v.bytes

\* 262144 was encoded in 4 bytes
C18_Witness ==
    /\ pc = "encoded"
    /\ number = BigInt_from(262144)
    /\ octets.bytes = <<8, 4, 0, 0>>


(***************************************************************************)
(* Inlining a fragment: its body as one command or instruction by          *)
(* instruction                                                             *)
(***************************************************************************)
\* the instructions of the body whose bytes a command carries: two
\* instructions, the first the longer, or one when there is one byte
InstructionsOf(command) ==
    IF Len(command) <= 1
    THEN <<command>>
    ELSE LET half == (Len(command) + 1) \div 2
         IN  <<SubSeq(command, 1, half), SubSeq(command, half + 1, Len(command))>>

RECURSIVE write_each(_, _)
\* write_command for each instruction in turn, each with the position of
\* its line
write_each(self, instructions) ==
    IF instructions = <<>>
    THEN self
    ELSE LET r == write_command(self, Head(instructions), DbgNode_from(Pos(1)))
         IN  write_each([cells |-> r.cells, dbg |-> r.dbg], Tail(instructions))

\* the bits of every builder, in order
CellBits(builders) ==
    [i \in 1..Len(builders) |->
        [data |-> builders[i].data, length_in_bits |-> builders[i].length_in_bits]]

\* the write_command just made left the bits that writing the body's
\* instructions one at a time from the same state leaves
InlinedAsWritten ==
    CellBits(cells') = CellBits(write_each(Self, InstructionsOf(call'.command)).cells)

\* C19 as stated: from every writer state and for every body, the bits in
\* the cells after write_command of the whole body are those after
\* write_command of each instruction of the body.
C19_InlineAsTextual ==
    [][IsWrite("write_command") /\ result' # "panic" => InlinedAsWritten]_vars

\* C19, amended: the same holds when the whole body fits the room left in
\* the current builder, and when not even its first instruction fits it
\* and the body fits an empty cell.
C19_InlineWhenRoom ==
    [][IsWrite("write_command") /\ result' # "panic" =>
          LET body  == InstructionsOf(call'.command)
              used  == bits_used(Last(cells))
              bits  == 8 * Len(call'.command)
          IN  \/ used + bits <= MaxCellBits
              \/ used + 8 * Len(body[1]) > MaxCellBits /\ bits <= MaxCellBits
              => InlinedAsWritten]_vars

\* a body of two instructions was inlined into the empty first builder
C19_Witness ==
    /\ call.op = "write_command"
    /\ result = "Ok"
    /\ nwrites = 1
    /\ Len(InstructionsOf(call.command)) = 2
    /\ Len(cells) = 1


(***************************************************************************)
(* The asm command-line tool (bin/asm.rs).  A file name is a sequence of   *)
(* parts, so that strip_suffix and format! act on it; env tells which of   *)
(* the steps that can fail succeed in this run.                            *)
(***************************************************************************)
\* input.strip_suffix(".code").unwrap_or(&input)
strip_suffix_code(input) ==
    IF input # <<>> /\ Last(input) = ".code" THEN Front(input) ELSE input

\* format!("{}.boc", prefix), format!("{}.dbg.json", prefix)
with_suffix(prefix, suffix) == prefix \o <<suffix>>

MaxArgs == 4

\* arguments after the executable name, in order
ArgPool == <<<<"out", ".boc">>, <<"map", ".json">>, <<"extra">>, <<"more">>,
             <<"and", ".more">>>>

InputNames == {<<"prog", ".code">>, <<"prog">>, <<"prog", ".txt">>}

ArgLists ==
    {<<>>} \cup {<<input>> \o SubSeq(ArgPool, 1, n) :
                    input \in InputNames, n \in 0..(MaxArgs - 1)}

Steps == {"read", "compile", "write_boc", "write_dbg"}

exit_on_error_swapped(step) ==
    CASE step = "read" -> 3
      [] step = "compile" -> 4
      [] step = "write_boc" -> 6
      [] step = "write_dbg" -> 5

\* the status main exits with when the step returns Err
exit_on_error(step) ==
    CASE step = "read" -> 3
      [] step = "compile" -> 4
      [] step = "write_boc" -> 5
      [] step = "write_dbg" -> 6

InitAsm ==
    /\ args \in ArgLists
    /\ env \in [Steps -> BOOLEAN]
    /\ exit_code = None
    /\ log = <<>>
    /\ pc = "main"
    /\ call = [op |-> "main"]
    /\ result = None
    /\ info = None
    /\ WriterIdle /\ DebugIdle /\ CodecIdle /\ TextIdle

\* std::process::exit(code) after the message on stderr
Exit(code, message) ==
    /\ exit_code' = code
    /\ log' = log \o <<<<"eprintln", message>>, <<"exit", code>>>>
    /\ pc' = "exited"

\* a failed write_boc / write_dbg: Err from the serialisation or from
\* File::create leaves no file, Err from write_all leaves the file created;
\* then exit(code)
WriteFailed(code, message, file) ==
    \E created \in BOOLEAN :
        /\ exit_code' = code
        /\ log' = log \o (IF created THEN <<<<"create", file>>>> ELSE <<>>)
                      \o <<<<"eprintln", message>>, <<"exit", code>>>>
        /\ pc' = "exited"

AsmUnchanged ==
    UNCHANGED <<result, info, writer_vars, debug_vars, codec_vars, text_vars>>

\* main, lines 24-36: the arguments
ParseArgs ==
    /\ pc = "main"
    /\ IF Len(args) = 0
       THEN Exit(1, "usage") /\ UNCHANGED call
       ELSE LET input  == args[1]
                prefix == strip_suffix_code(input)
                output == IF Len(args) >= 2 THEN args[2]
                          ELSE with_suffix(prefix, ".boc")
                dbgmap == IF Len(args) >= 3 THEN args[3]
                          ELSE with_suffix(prefix, ".dbg.json")
            IN  IF Len(args) >= 4
                THEN Exit(2, "usage") /\ UNCHANGED call
                ELSE /\ call' = [op |-> "main", input |-> input,
                                 output |-> output, dbgmap |-> dbgmap]
                     /\ pc' = "read"
                     /\ UNCHANGED <<exit_code, log>>
    /\ UNCHANGED <<args, env>>
    /\ AsmUnchanged


Read_ignoring_error ==
    /\ pc = "read"
    /\ log' = Append(log, <<"read", call.input>>)
    /\ pc' = "compile"
    /\ UNCHANGED <<exit_code, call, args, env>>
    /\ AsmUnchanged

\* let lines = read(input), else exit(3)
Read ==
    /\ pc = "read"
    /\ IF env["read"]
       THEN /\ log' = Append(log, <<"read", call.input>>)
            /\ pc' = "compile"
            /\ UNCHANGED exit_code
       ELSE Exit(exit_on_error("read"), "read")
    /\ UNCHANGED <<call, args, env>>
    /\ AsmUnchanged

\* let (slice, dbg) = compile_code_debuggable(lines), else exit(4)
Compile ==
    /\ pc = "compile"
    /\ IF env["compile"]
       THEN pc' = "write_boc" /\ UNCHANGED <<exit_code, log>>
       ELSE Exit(exit_on_error("compile"), "compile")
    /\ UNCHANGED <<call, args, env>>
    /\ AsmUnchanged

\* write_boc(slice, &output), else exit(5); println!("wrote boc to {}")
WriteBoc ==
    /\ pc = "write_boc"
    /\ IF env["write_boc"]
       THEN /\ log' = log \o <<<<"write", call.output>>,
                               <<"println", "wrote boc to", call.output>>>>
            /\ pc' = "write_dbg"
            /\ UNCHANGED exit_code
       ELSE WriteFailed(exit_on_error("write_boc"), "write_boc", call.output)
    /\ UNCHANGED <<call, args, env>>
    /\ AsmUnchanged

\* write_dbg(dbg, &dbgmap), else exit(6); println!("wrote dbg to {}");
\* main returns
WriteDbg ==
    /\ pc = "write_dbg"
    /\ IF env["write_dbg"]
       THEN /\ log' = log \o <<<<"write", call.dbgmap>>,
                               <<"println", "wrote dbg to", call.dbgmap>>,
                               <<"exit", 0>>>>
            /\ pc' = "exited"
            /\ exit_code' = 0
       ELSE WriteFailed(exit_on_error("write_dbg"), "write_dbg", call.dbgmap)
    /\ UNCHANGED <<call, args, env>>
    /\ AsmUnchanged

NextAsm ==
    \/ ParseArgs
    \/ Read
    \/ Compile
    \/ WriteBoc
    \/ WriteDbg

SpecAsm == InitAsm /\ [][NextAsm]_vars

\* the exits recorded so far
Exits == {i \in 1..Len(log) : log[i][1] = "exit"}

\* C20: a finished run of asm has exactly one exit status: 1 without an
\* input argument, 2 with more than three arguments, else 3 when the read
\* failed, else 4 when the compilation failed, else 5 when writing the BoC
\* failed, else 6 when writing the debug map failed, and 0 only when all
\* four succeeded.
C20_ExitCodes ==
    /\ pc # "exited" => exit_code = None /\ Exits = {}
    /\ pc = "exited" =>
          /\ Exits = {Len(log)}
          /\ Last(log) = <<"exit", exit_code>>
          /\ exit_code = (IF Len(args) = 0 THEN 1
                          ELSE IF Len(args) > 3 THEN 2
                          ELSE IF ~env["read"] THEN 3
                          ELSE IF ~env["compile"] THEN 4
                          ELSE IF ~env["write_boc"] THEN 5
                          ELSE IF ~env["write_dbg"] THEN 6
                          ELSE 0)
          /\ exit_code = 0 =>
                /\ Len(args) \in 1..3
                /\ \A step \in Steps : env[step]

\* a run that wrote the BoC and failed on the debug map
C20_Witness ==
    /\ pc = "exited"
    /\ exit_code = 6
    /\ \E i \in 1..Len(log) : log[i] = <<"write", call.output>>


(***************************************************************************)
(* read() of bin/asm.rs and lines_to_string.  A text is a sequence of      *)
(* characters; "LF" and "CR" stand for the line feed and the carriage      *)
(* return.                                                                 *)
(***************************************************************************)
Chars == {"a", "LF", "CR"}

MaxFileLen == 4

RECURSIVE SeqsUpTo(_, _)
\* the sequences over S of length at most n
SeqsUpTo(S, n) ==
    IF n = 0 THEN {<<>>}
    ELSE LET shorter == SeqsUpTo(S, n - 1)
         IN  shorter \cup {Append(t, c) : t \in shorter, c \in S}

\* the contents of the input file
FileContents == SeqsUpTo(Chars, MaxFileLen)

\* position of the first line feed of s, 0 when it has none
FirstLF(s) ==
    IF \E i \in 1..Len(s) : s[i] = "LF"
    THEN CHOOSE i \in 1..Len(s) : s[i] = "LF" /\ \A j \in 1..(i - 1) : s[j] # "LF"
    ELSE 0

RECURSIVE str_lines(_)
\* str::lines: the lines of s without their line ends; a line ends at a
\* line feed, a carriage return right before it belongs to the line end;
\* the last line needs no line end
str_lines(s) ==
    IF s = <<>> THEN <<>>
    ELSE IF FirstLF(s) = 0 THEN <<s>>
    ELSE LET line == SubSeq(s, 1, FirstLF(s) - 1)
         IN  <<IF line # <<>> /\ Last(line) = "CR" THEN Front(line) ELSE line>>
                 \o str_lines(SubSeq(s, FirstLF(s) + 1, Len(s)))

\* read(input): one Line per line of the file, its text the line and a
\* line feed, its position the file name and the index of the line
read(input, s) ==
    [lineno \in 1..Len(str_lines(s)) |->
        [text |-> Append(str_lines(s)[lineno], "LF"),
         pos  |-> DbgPos(input, lineno - 1, 0)]]

RECURSIVE lines_to_string(_)
\* lines.iter().fold(String::new(), |result, line| result + line.text)
lines_to_string(ls) ==
    IF ls = <<>> THEN <<>>
    ELSE lines_to_string(Front(ls)) \o Last(ls).text

InitText ==
    /\ content \in FileContents
    /\ lines = None /\ joined = None /\ literal = None /\ parsed = None
    /\ pc = "reading"
    /\ call = [op |-> "input"]
    /\ result = None
    /\ info = None
    /\ WriterIdle /\ DebugIdle /\ CodecIdle /\ AsmIdle

TextUnchanged ==
    UNCHANGED <<result, info, writer_vars, debug_vars, codec_vars, asm_vars>>

\* let lines = read(input)
ReadLines ==
    /\ pc = "reading"
    /\ lines' = read("sample.code", content)
    /\ pc' = "read"
    /\ call' = [op |-> "read"]
    /\ UNCHANGED <<content, joined, literal, parsed>>
    /\ TextUnchanged

\* lines_to_string(&lines)
LinesToString ==
    /\ pc = "read"
    /\ joined' = lines_to_string(lines)
    /\ pc' = "joined"
    /\ call' = [op |-> "lines_to_string"]
    /\ UNCHANGED <<content, lines, literal, parsed>>
    /\ TextUnchanged

NextText ==
    \/ ReadLines
    \/ LinesToString

SpecText == InitText /\ [][NextText]_vars

\* C21: the concatenation of the texts of the Lines that read() builds from
\* a file is the content of the file.
C21_LinesReproduceSource ==
    pc = "joined" => joined = content


(***************************************************************************)
(* The two lists of the writer                                             *)
(***************************************************************************)
\* C22: the writer holds as many DbgNodes as builders, at least one of each
\* until finalize takes them: one empty builder and one empty node after
\* new(), and after every write call, successful, failed or panicked, both
\* lists have grown by one or neither has.
C22_ParallelLists ==
    /\ Len(cells) = Len(dbg)
    /\ call.op = "new" =>
          cells = <<BuilderData_new>> /\ dbg = <<DbgNode_new>>
    /\ call.op \in {"new", "write_command", "write_composite_command"} =>
          Len(cells) >= 1

\* a failed write on a writer that holds two pairs
C22_Witness ==
    /\ pc = "writing"
    /\ result = "NotFitInSlice"
    /\ Len(cells) = 2
    /\ Len(dbg) = 2


(***************************************************************************)
(* parse_slice.  A slice literal xD1..Dm or xD1..Dm_ is [digits,           *)
(* underscore]: its hex digits as numbers and whether it ends with "_".    *)
(***************************************************************************)
\* the four bits of a hex digit, most significant first
DigitBits(d) == <<d \div 8, (d \div 4) % 2, (d \div 2) % 2, d % 2>>

RECURSIVE HexBits(_)
HexBits(digits) ==
    IF digits = <<>> THEN <<>> ELSE DigitBits(Head(digits)) \o HexBits(Tail(digits))

\* the bits padded with zero bits to whole bytes
Padded(bits) == bits \o Rep((8 - (Len(bits) % 8)) % 8, 0)

\* the bytes of a bit string of whole bytes
BytesOf(bits) ==
    [i \in 1..(Len(bits) \div 8) |->
        bits[8 * i - 7] * 128 + bits[8 * i - 6] * 64 + bits[8 * i - 5] * 32
            + bits[8 * i - 4] * 16 + bits[8 * i - 3] * 8 + bits[8 * i - 2] * 4
            + bits[8 * i - 1] * 2 + bits[8 * i]]

\* parse_slice(literal, bits): `offset` zero bits, the bits of the digits,
\* a 1 bit unless the literal ends with "_"; whole bytes, a zero last byte
\* left out
parse_slice(lit, offset) ==
    LET bytes == BytesOf(Padded(Rep(offset, 0) \o HexBits(lit.digits)
                                    \o (IF lit.underscore THEN <<>> ELSE <<1>>)))
    IN  IF bytes # <<>> /\ Last(bytes) = 0 THEN Front(bytes) ELSE bytes

check_slice_without_pop(val, digits, compl, i) ==
    LET count == i + digits * 4 + (IF compl THEN 1 ELSE 0)
        len   == (count + 7) \div 8
        tail  == IF compl THEN 2 * val + 1 ELSE val
    IN  [n \in 1..len |-> ((tail * 2 ^ (8 * len - count)) \div 2 ^ (8 * (len - n))) % 256]

\* check_slice of test_parseslice_full: the bytes of a builder of i zero
\* bits, then `val` in digits * 4 bits, then a 1 bit when compl; a zero
\* last byte popped
check_slice(val, digits, compl, i) ==
    LET count == i + digits * 4 + (IF compl THEN 1 ELSE 0)
        len   == (count + 7) \div 8
        tail  == IF compl THEN 2 * val + 1 ELSE val
        vec   == [n \in 1..len |->
                     ((tail * 2 ^ (8 * len - count)) \div 2 ^ (8 * (len - n))) % 256]
    IN  IF Last(vec) = 0 THEN Front(vec) ELSE vec

Literal(digits, underscore) == [digits |-> digits, underscore |-> underscore]

SliceVector(digits, underscore, offset, bytes) ==
    [literal |-> Literal(digits, underscore), offset |-> offset, bytes |-> bytes]

\* the calls of test_parseslice with the bytes they expect
SliceVectors ==
    {SliceVector(<<8>>, FALSE, 4, <<8, 128>>),
     SliceVector(<<8>>, TRUE, 4, <<8>>),
     SliceVector(<<8, 10>>, FALSE, 4, <<8, 168>>),
     SliceVector(<<8, 10>>, TRUE, 4, <<8, 160>>),
     SliceVector(<<8, 10, 0>>, FALSE, 4, <<8, 160, 128>>),
     SliceVector(<<8, 10, 0>>, TRUE, 4, <<8, 160>>),
     SliceVector(<<8>>, FALSE, 0, <<136>>),
     SliceVector(<<8>>, TRUE, 0, <<128>>),
     SliceVector(<<8, 10>>, FALSE, 0, <<138, 128>>),
     SliceVector(<<8, 10>>, TRUE, 0, <<138>>),
     SliceVector(<<8, 10, 0>>, FALSE, 0, <<138, 8>>),
     SliceVector(<<8, 10, 0>>, TRUE, 0, <<138>>)}

MaxDigits == 2

\* the literals given to parse_slice: every literal of 1..MaxDigits digits
\* and those of the tests
Literals ==
    {Literal(digits, underscore) :
        digits \in SeqsUpTo(0..15, MaxDigits) \ {<<>>}, underscore \in BOOLEAN}
        \cup {v.literal : v \in SliceVectors}

InitSlice ==
    /\ \E lit \in Literals, offset \in 0..7 :
          literal = [digits |-> lit.digits, underscore |-> lit.underscore,
                     offset |-> offset]
    /\ parsed = None /\ content = None /\ lines = None /\ joined = None
    /\ pc = "parsing"
    /\ call = [op |-> "input"]
    /\ result = None
    /\ info = None
    /\ WriterIdle /\ DebugIdle /\ CodecIdle /\ AsmIdle

\* parse_slice(literal, offset)
ParseSlice ==
    /\ pc = "parsing"
    /\ parsed' = parse_slice(literal, literal.offset)
    /\ pc' = "parsed"
    /\ call' = [op |-> "parse_slice"]
    /\ UNCHANGED <<content, lines, joined, literal>>
    /\ TextUnchanged

NextSlice == ParseSlice

SpecSlice == InitSlice /\ [][NextSlice]_vars


\* the bit string the literal stands for at its offset, in whole bytes
SliceBits ==
    Padded(Rep(literal.offset, 0) \o HexBits(literal.digits)
               \o (IF literal.underscore THEN <<>> ELSE <<1>>))

C24_FromNeverOutOfRange ==
    ~(pc = "panicked" /\ call.op = "DbgInfo::from")


\* C25: a write_command that returns records dbg relative to where the
\* command starts: in the current builder each offset o of dbg is the key
\* (bits used before the append) + o of the current DbgNode and dbg's
\* children follow the node's children in order; in a fresh builder the
\* pushed DbgNode has exactly dbg's offsets and children.
C25_CommandDebugOffsets ==
    [][IsWrite("write_command") /\ result' = "Ok" =>
          LET d      == call'.dbg
              offset == bits_used(Last(cells))
              node   == Last(dbg')
          IN  IF Len(cells') = Len(cells)
              THEN /\ \A o \in DOMAIN d.offsets :
                         /\ offset + o \in DOMAIN node.offsets
                         /\ node.offsets[offset + o] = d.offsets[o]
                   /\ \A k \in DOMAIN node.offsets :
                         \/ k \in DOMAIN Last(dbg).offsets
                               /\ (k - offset \notin DOMAIN d.offsets
                                      => node.offsets[k] = Last(dbg).offsets[k])
                         \/ k - offset \in DOMAIN d.offsets
                   /\ node.children = Last(dbg).children \o d.children
              ELSE /\ Len(dbg') = Len(dbg) + 1
                   /\ node.offsets = d.offsets
                   /\ node.children = d.children]_vars

\* a command with a child node written in place after 8 bits and one child
C25_Witness ==
    /\ pc = "writing" /\ call.op = "write_command" /\ result = "Ok"
    /\ Len(cells) = 1
    /\ bits_used(cells[1]) = 16
    /\ 8 \in DOMAIN dbg[1].offsets
    /\ Len(dbg[1].children) = 2
    /\ Len(call.dbg.children) = 1


(***************************************************************************)
(* The decoder on any stream of bytes                                      *)
(***************************************************************************)
Patterns == {"zeros", "ones", "up", "down", "top"}

\* the i-th byte after the first one
PatternByte(p, i) ==
    CASE p = "zeros" -> 0
      [] p = "ones"  -> 255
      [] p = "up"    -> i
      [] p = "down"  -> 256 - i
      [] p = "top"   -> IF i = 1 THEN 128 ELSE 0

MaxExtra == 2

\* every first byte, followed by one byte less than its length asks for,
\* by exactly as many, or by up to MaxExtra more
Streams ==
    {<<first_byte>> \o [i \in 1..((first_byte \div 8) + 2 + extra) |-> PatternByte(p, i)] :
        first_byte \in 0..255, p \in Patterns, extra \in (0 - 1)..MaxExtra}

InitStream ==
    /\ octets \in {[some |-> TRUE, bytes |-> s] : s \in Streams}
    /\ number = None /\ decoded = None /\ rest = None
    /\ pc = "streaming"
    /\ call = [op |-> "input"]
    /\ result = None
    /\ info = None
    /\ WriterIdle /\ DebugIdle /\ AsmIdle /\ TextIdle

\* from_big_endian_octet_stream(|| next byte of the stream, Err at its end)
DecodeStream ==
    /\ pc = "streaming"
    /\ LET r == from_big_endian_octet_stream(octets.bytes)
       IN  /\ decoded' = r.value
           /\ rest' = r.rest
           /\ pc' = IF r.err THEN "stream failed" ELSE "stream decoded"
    /\ call' = [op |-> "from_big_endian_octet_stream"]
    /\ UNCHANGED <<result, info, number, octets,
                   writer_vars, debug_vars, asm_vars, text_vars>>

NextStream == DecodeStream

SpecStream == InitStream /\ [][NextStream]_vars

\* byte_len of the stream in `octets`
StreamByteLen == (octets.bytes[1] \div 8) + 3

\* C26: the decoder reads exactly byte_len = (first_byte >> 3) + 3 bytes,
\* the first one included, for every first byte: it fails only on a stream
\* shorter than that and otherwise leaves every byte after the byte_len-th
\* unread.
C26_ReadsByteLen ==
    /\ pc = "stream failed" => Len(octets.bytes) < StreamByteLen
    /\ pc = "stream decoded" =>
          /\ Len(octets.bytes) >= StreamByteLen
          /\ Len(octets.bytes) - Len(rest) = StreamByteLen
          /\ rest = SubSeq(octets.bytes, StreamByteLen + 1, Len(octets.bytes))

\* byte_len = 8 (a multiple of 4) with two bytes left unread
C26_Witness ==
    /\ pc = "stream decoded"
    /\ StreamByteLen = 8
    /\ Len(octets.bytes) = 10
    /\ Len(rest) = 2

\* C27: the decoder returns the low 8*byte_len - 5 bits of the bytes read as
\* a signed two's-complement big-endian integer: non-negative when bit 2 of
\* the first byte is clear, negative with the two's complement of the
\* sign-extended field as magnitude when it is set.
C27_DecodedValue ==
    pc = "stream decoded" =>
        LET field == SubSeq(octets.bytes, 1, StreamByteLen)
        IN  /\ decoded = TwosValue(FieldBytes(field))
            /\ (octets.bytes[1] \div 4) % 2 = 0 =>
                  decoded = BigInt_from_biguint("Plus", <<octets.bytes[1] % 8>> \o Tail(field))
            /\ (octets.bytes[1] \div 4) % 2 = 1 => decoded.sign = "Minus"

\* a negative value of 5 bytes: the top digit holds one byte only
C27_Witness ==
    /\ pc = "stream decoded"
    /\ octets.bytes = <<16 + 4, 0, 0, 0, 0>>
    /\ decoded = BigInt_from_biguint("Minus", <<4, 0, 0, 0, 0>>)


\* finalize, once called, runs on: the loop takes its next turn and the
\* function returns when the loop ends
SpecFinalize == Spec /\ WF_vars(FinalizeChain) /\ WF_vars(FinalizeReturn)

\* C28: finalize terminates on every reachable writer: once called it
\* returns, with both lists empty, after one chaining step for each builder
\* but the last.
C28_FinalizeTerminates ==
    pc = "finalizing" ~> (pc = "finalized" /\ cells = <<>> /\ dbg = <<>>)


\* a call of write_command or write_composite_command
IsAnyWrite == IsWrite("write_command") \/ IsWrite("write_composite_command")

\* C29: a write changes at most the last builder / DbgNode pair or appends
\* one new last pair; every earlier builder and DbgNode stays as it was.
C29_WritesTouchLastPair ==
    [][IsAnyWrite =>
          \/ /\ Len(cells') = Len(cells) /\ Len(dbg') = Len(dbg)
             /\ Front(cells') = Front(cells)
             /\ Front(dbg') = Front(dbg)
          \/ /\ Len(cells') = Len(cells) + 1 /\ Len(dbg') = Len(dbg) + 1
             /\ Front(cells') = cells
             /\ Front(dbg') = dbg]_vars

\* the second builder was written in place after the first one was filled
C29_Witness ==
    /\ pc = "writing" /\ result = "Ok"
    /\ Len(cells) = 2
    /\ bits_used(cells[1]) = 1016
    /\ bits_used(cells[2]) = 16

\* C30: a write that returns NotFitInSlice leaves the writer as it was: no
\* pair pushed, the current builder and DbgNode unchanged.
C30_NotFitLeavesWriter ==
    [][IsAnyWrite /\ result' = "NotFitInSlice" => cells' = cells /\ dbg' = dbg]_vars

\* a composite command refused by a writer whose current builder holds an
\* instruction and a reference
C30_Witness ==
    /\ pc = "writing" /\ result = "NotFitInSlice"
    /\ call.op = "write_composite_command"
    /\ bits_used(Last(cells)) > 0
    /\ Len(Last(cells).references) > 0


\* every entry of the map `old` is an entry of the map `new`
EntriesKept(old, new) ==
    \A k \in DOMAIN old : k \in DOMAIN new /\ new[k] = old[k]

\* C31: no debug entry is lost to a later emission: an (offset -> position)
\* a node holds is still held by that node after every further write and
\* after every step of finalize.
C31_EntriesNeverLost ==
    [][/\ IsAnyWrite /\ result' = "Ok" =>
             \A i \in 1..Len(dbg) : EntriesKept(dbg[i].offsets, dbg'[i].offsets)
       /\ pc = "writing" /\ pc' = "finalizing" =>
             /\ cursor_dbg' = Last(dbg)
             /\ dbg' = Front(dbg)
       /\ pc = "finalizing" /\ pc' = "finalizing" /\ cells # <<>> =>
             /\ cursor_dbg'.offsets = Last(dbg).offsets
             /\ Last(cursor_dbg'.children) = cursor_dbg
             /\ dbg' = Front(dbg)]_vars


\* the places of the log where any file is read, created or written
FileAccesses == {i \in 1..Len(log) : log[i][1] \in {"read", "create", "write"}}

\* the stage that can follow each stage of main
StageOrder ==
    {<<"main", "read">>, <<"read", "compile">>, <<"compile", "write_boc">>,
     <<"write_boc", "write_dbg">>} \cup
        {<<stage, "exited">> :
            stage \in {"main", "read", "compile", "write_boc", "write_dbg"}}

\* what the log and the stage reached say about the stages run so far
StagesRespected ==
    /\ pc = "main" => log = <<>>
    /\ pc = "exited" /\ exit_code \in {1, 2} => FileAccesses = {}
    /\ pc \in {"compile", "write_boc", "write_dbg"} => env["read"]
    /\ pc \in {"write_boc", "write_dbg"} => env["compile"]
    /\ pc = "write_dbg" => env["write_boc"]
    /\ FileAccesses # {} =>
          /\ log[1][1] = "read"
          /\ \A i \in FileAccesses : log[i][1] = "read" => i = 1
          /\ (~env["read"] \/ ~env["compile"]) => FileAccesses = {1}
          /\ \A i \in FileAccesses :
                log[i][1] # "read" /\ log[i][2] = call.dbgmap =>
                    \E k \in 1..(i - 1) : log[k] = <<"write", call.output>>

\* C32: asm runs argument check, read, compile, write BoC, write debug map
\* in this order and stops at the first failing stage: no file is touched
\* before the arguments were accepted, none is created or written when
\* reading or compiling failed, and the debug map is touched only after the
\* BoC was written.
C32_StageOrder ==
    [][/\ pc' # pc => <<pc, pc'>> \in StageOrder
       /\ StagesRespected
       /\ StagesRespected']_vars

\* the arguments were accepted, the input read and compiled, the BoC
\* written, and the debug map file created but not written
C32_Witness ==
    /\ pc = "exited"
    /\ exit_code = 6
    /\ \E i \in 1..Len(log) : log[i] = <<"create", call.dbgmap>>
    /\ \E i \in 1..Len(log) : log[i] = <<"println", "wrote boc to", call.output>>


=============================================================================
